---- MODULE Spec2Model ----
(***************************************************************************)
(* Model of the TTS microservice in src/tts-api: the path resolver         *)
(* (file_manager.py), the service handlers (app.py) and the espeak/ffmpeg  *)
(* wrappers they call (simple_tts_engine.py, simple_audio_utils.py).       *)
(*                                                                         *)
(* Strings are sequences of one-character strings, so that the regular     *)
(* expression passes of _sanitize_filename are computed character by       *)
(* character.                                                              *)
(***************************************************************************)
EXTENDS Integers, Sequences, FiniteSets, TLC

(***************************************************************************)
(* Bounds of the model                                                     *)
(***************************************************************************)
\* longest identifier enumerated exhaustively over Alphabet
MaxNameLen == 2
\* number of distinct values uuid.uuid4() may return in one run
NumUuids == 2
\* most requests the model sends in one run
MaxRequests == 2
\* most requests waiting at once
MaxInbox == 2
\* longest text enumerated exhaustively over TextAlphabet
MaxTextChars == 3
\* most sentences in a text built from SentenceShapes
MaxSentences == 2
\* most samples in a waveform given to _normalize_audio
MaxSamples == 3
\* generate_speech calls made on one engine instance
NumCalls == 2
\* _generate_with_espeak calls in one behaviour
MaxEspeakCalls == 3
\* cleanup_orphaned_files calls in one behaviour
MaxCleanups == 2

(***************************************************************************)
(* Program constants                                                       *)
(***************************************************************************)
\* file_manager.py:187  elif len(sanitized) > 100
MaxFilenameLen == 100

(***************************************************************************)
(* Characters and strings                                                  *)
(***************************************************************************)
Letters ==
    {"a", "b", "c", "d", "e", "f", "g", "h", "i", "j", "k", "l", "m",
     "n", "o", "p", "q", "r", "s", "t", "u", "v", "w", "x", "y", "z"}

Digits == {"0", "1", "2", "3", "4", "5", "6", "7", "8", "9"}

UpperLetters ==
    {"A", "B", "C", "D", "E", "F", "G", "H", "I", "J", "K", "L", "M",
     "N", "O", "P", "Q", "R", "S", "T", "U", "V", "W", "X", "Y", "Z"}

\* the characters matched by \w (the ASCII part of it)
WordChars == Letters \cup UpperLetters \cup Digits \cup {"_"}

\* the class [<>:"/\\|?*] of the first re.sub
ProblemChars == {"<", ">", ":", "\"", "/", "\\", "|", "?", "*"}

\* the complement of the class [^\w\-_.] of the second re.sub
KeptChars == WordChars \cup {"-", "_", "."}

Rep(c, n) == [i \in 1..n |-> c]

\* str.startswith / str.endswith
StartsWith(s, p) == Len(s) >= Len(p) /\ SubSeq(s, 1, Len(p)) = p

EndsWith(s, p) == Len(s) >= Len(p) /\ SubSeq(s, Len(s) - Len(p) + 1, Len(s)) = p

(***************************************************************************)
(* FileManager._sanitize_filename                                          *)
(***************************************************************************)
\* re.sub(r'[<>:"/\\|?*]', '_', filename)
SubProblematic(s) == [i \in DOMAIN s |-> IF s[i] \in ProblemChars THEN "_" ELSE s[i]]

\* re.sub(r'[^\w\-_.]', '_', sanitized)
SubNotKept(s) == [i \in DOMAIN s |-> IF s[i] \in KeptChars THEN s[i] ELSE "_"]

\* re.sub(r'_+', '_', sanitized): every run of '_' becomes one '_', that is,
\* an '_' that follows an '_' is dropped
CollapseUnderscores(s) ==
    LET tagged == [i \in DOMAIN s |-> <<s[i], i > 1 /\ s[i - 1] = "_">>]
        kept == SelectSeq(tagged, LAMBDA t : ~(t[1] = "_" /\ t[2]))
    IN  [i \in DOMAIN kept |-> kept[i][1]]

\* str.strip(chars): drop leading and trailing characters that are in chars
Strip(s, chars) ==
    LET keep == {i \in DOMAIN s : s[i] \notin chars}
    IN  IF keep = {} THEN <<>>
        ELSE LET lo == CHOOSE i \in keep : \A j \in keep : i <= j
                 hi == CHOOSE i \in keep : \A j \in keep : i >= j
             IN  SubSeq(s, lo, hi)

HexDigits == <<"1", "2", "3", "4", "5", "6", "7", "8", "9", "a", "b", "c", "d", "e", "f">>

\* str(uuid.uuid4()): 8-4-4-4-12 lower-case hex digits, version nibble 4;
\* n selects which of the NumUuids random values this call returns
Uuid4(n) ==
    Rep("0", 8) \o <<"-">> \o Rep("0", 4) \o <<"-", "4">> \o Rep("0", 3)
      \o <<"-", "8">> \o Rep("0", 3) \o <<"-">> \o Rep("0", 11)
      \o <<HexDigits[((n - 1) % Len(HexDigits)) + 1]>>

Uuids == {Uuid4(n) : n \in 1..NumUuids}

\* the values uuid.uuid4() may return to _sanitize_filename(filename): it is
\* called only when the name is empty before or after the substitutions
UuidChoices(filename) ==
    IF Strip(CollapseUnderscores(SubNotKept(SubProblematic(filename))), {"_", "."}) = <<>>
    THEN Uuids
    ELSE {<<>>}

\* _sanitize_filename without its strip('_.') step
SanitizeNoStrip(filename, uuid) ==
    IF filename = <<>> THEN uuid
    ELSE LET sanitized == CollapseUnderscores(SubNotKept(SubProblematic(filename)))
         IN  IF sanitized = <<>> THEN uuid
             ELSE IF Len(sanitized) > MaxFilenameLen
                  THEN SubSeq(sanitized, 1, MaxFilenameLen)
                  ELSE sanitized

\* _sanitize_filename(filename); uuid is the value uuid.uuid4() returns if called
Sanitize(filename, uuid) ==
    IF filename = <<>> THEN uuid
    ELSE LET sanitized == Strip(CollapseUnderscores(SubNotKept(SubProblematic(filename))),
                                {"_", "."})
         IN  IF sanitized = <<>> THEN uuid
             ELSE IF Len(sanitized) > MaxFilenameLen
                  THEN SubSeq(sanitized, 1, MaxFilenameLen)
                  ELSE sanitized

(***************************************************************************)
(* pathlib.Path                                                            *)
(***************************************************************************)
\* Path(audio_root) with the default of FileManager.__init__ and of AUDIO_PATH
AudioRoot == <<"/", "a", "u", "d", "i", "o">>

\* Path.__truediv__: an absolute right operand replaces the left one
PathJoin(p, seg) ==
    IF seg # <<>> /\ seg[1] = "/" THEN seg ELSE p \o <<"/">> \o seg

\* Path.mkdir(parents=True, exist_ok=...): FileExistsError only without exist_ok
Mkdir(ds, d, exist_ok) ==
    IF d \in ds /\ ~exist_ok
    THEN [ok |-> FALSE, dirs |-> ds]
    ELSE [ok |-> TRUE, dirs |-> ds \cup {d}]

\* the components of a path: the maximal runs of text between separators
Components(p) ==
    LET starts == SelectSeq([i \in DOMAIN p |-> i],
                            LAMBDA i : p[i] # "/" /\ (i = 1 \/ p[i - 1] = "/"))
        EndOf(i) == CHOOSE j \in i..Len(p) :
                        /\ \A k \in i..j : p[k] # "/"
                        /\ (j = Len(p) \/ p[j + 1] = "/")
    IN  [k \in DOMAIN starts |-> SubSeq(p, starts[k], EndOf(starts[k]))]

RECURSIVE ResolveFrom(_, _, _)
ResolveFrom(parts, i, acc) ==
    IF i > Len(parts) THEN acc
    ELSE IF parts[i] = <<".">> THEN ResolveFrom(parts, i + 1, acc)
    ELSE IF parts[i] = <<".", ".">>
         THEN ResolveFrom(parts, i + 1, IF acc = <<>> THEN acc ELSE SubSeq(acc, 1, Len(acc) - 1))
    ELSE ResolveFrom(parts, i + 1, Append(acc, parts[i]))

\* the canonical location a path names, '.' and '..' components applied
Resolve(p) == ResolveFrom(Components(p), 1, <<>>)

(***************************************************************************)
(* FileManager.get_chapter_path                                            *)
(***************************************************************************)
ChapterPrefix == <<"c", "h", "a", "p", "t", "e", "r", "-">>

Mp3Suffix == <<".", "m", "p", "3">>

\* get_chapter_path(book, chapter) with ds the directories that exist; u1 and
\* u2 are what uuid.uuid4() returns to the first and the second sanitization
GetChapterPath(book, chapter, u1, u2, ds) ==
    LET safe_book == Sanitize(book, u1)
        book_dir == PathJoin(AudioRoot, safe_book)
        made == Mkdir(ds, book_dir, TRUE)
        safe_chapter == Sanitize(chapter, u2)
        filename == ChapterPrefix \o safe_chapter \o Mp3Suffix
    IN  [raised |-> ~made.ok,
         path |-> PathJoin(book_dir, filename),
         dirs |-> made.dirs]

(***************************************************************************)
(* FileManager.cleanup_orphaned_files                                      *)
(***************************************************************************)
\* self.audio_root.iterdir(), restricted to the entries that are directories
BookDirs(ds) ==
    {d \in ds : /\ Len(d) > Len(AudioRoot) + 1
                /\ StartsWith(d, AudioRoot \o <<"/">>)
                /\ \A i \in (Len(AudioRoot) + 2)..Len(d) : d[i] # "/"}

\* book_dir.name
DirName(d) == SubSeq(d, Len(AudioRoot) + 2, Len(d))

\* the files below directory d
FilesIn(fl, d) == {f \in fl : StartsWith(f, d \o <<"/">>)}

\* cleanup_orphaned_files(valid_books): given is FALSE for valid_books=None;
\* every directory under the audio root whose name is not an element of
\* valid_books is removed with shutil.rmtree, with the files in it; failing
\* holds the directories whose rmtree raises (which is logged and skipped);
\* the value returned counts the mp3 files of the removed directories
CleanupOrphanedFiles(ds, fl, given, valid_books, failing) ==
    IF ~given THEN [dirs |-> ds, files |-> fl, deleted_count |-> 0]
    ELSE LET orphaned == {d \in BookDirs(ds) : DirName(d) \notin valid_books}
             removed == orphaned \ failing
             gone == UNION {FilesIn(fl, d) : d \in removed}
         IN  [dirs |-> ds \ removed, files |-> fl \ gone,
              deleted_count |-> Cardinality({f \in gone : EndsWith(f, Mp3Suffix)})]

(***************************************************************************)
(* Identifiers the model feeds to the resolver                             *)
(***************************************************************************)
Alphabet == {"a", ".", "/", "_"}

\* every string over Alphabet of length 1..n
Names(n) == UNION {[1..k -> Alphabet] : k \in 1..n}

\* identifiers at and beyond the truncation length
LongNames ==
    {Rep("a", MaxFilenameLen), Rep("a", MaxFilenameLen + 1),
     Rep("a", MaxFilenameLen - 1) \o <<".", "b">>}

\* '../../etc', 'b 1', 'a\b', 'a-b', 'a:b' and the empty string
SpecialNames ==
    {<<".", ".", "/", ".", ".", "/", "e", "t", "c">>, <<"b", " ", "1">>,
     <<"a", "\\", "b">>, <<"a", "-", "b">>, <<"a", ":", "b">>, <<>>}

BookNames == Names(MaxNameLen) \cup LongNames \cup SpecialNames

ChapterNames == Names(1) \cup {<<"1">>, <<".", ".">>, <<"x", "/", "y">>, <<>>}

NoCall == [called |-> FALSE]

(***************************************************************************)
(* Request models (app.py TTSRequest) and the requests the model sends     *)
(***************************************************************************)
\* app.py:46  text: min_length=1, max_length=50000
MaxTextLen == 50000
\* app.py:47  book: min_length=1, max_length=200
MaxBookLen == 200
\* app.py:48  chapter: min_length=1, max_length=50
MaxChapterLen == 50

\* pydantic validation of a TTSRequest body
ValidTTSRequest(req) ==
    /\ Len(req.text) >= 1 /\ Len(req.text) <= MaxTextLen
    /\ Len(req.book) >= 1 /\ Len(req.book) <= MaxBookLen
    /\ Len(req.chapter) >= 1 /\ Len(req.chapter) <= MaxChapterLen

\* 'b1', 'a_b' and 'a b'
SvcBooks == {<<"b", "1">>, <<"a", "_", "b">>, <<"a", " ", "b">>}

SvcChapters == {<<"1">>}

\* '' and 'Hi.'
SvcTexts == {<<>>, <<"H", "i", ".">>}

\* f"{book}/chapter-{chapter}.mp3" built from the raw request fields
RawRelativePath(book, chapter) == book \o <<"/">> \o ChapterPrefix \o chapter \o Mp3Suffix

(***************************************************************************)
(* SimpleTTSEngine                                                         *)
(***************************************************************************)
\* the module global tts_engine before startup_event assigns it
EngineNone == [state |-> "None", attrs |-> [initialized |-> FALSE]]

\* SimpleTTSEngine(): the only attribute __init__ sets is initialized
NewSimpleTTSEngine == [state |-> "object", attrs |-> [initialized |-> FALSE]]

\* SimpleTTSEngine.initialize(): espeakOk is whether 'espeak --version' ran
\* and exited 0; every failure is swallowed and leaves initialized False
Initialize(e, espeakOk) == [e EXCEPT !.attrs.initialized = espeakOk]

\* attribute lookup obj.name: AttributeError when the object has no such attribute
GetAttr(e, name) ==
    IF name \in DOMAIN e.attrs
    THEN [raised |-> FALSE, value |-> e.attrs[name]]
    ELSE [raised |-> TRUE, value |-> FALSE]

\* SimpleTTSEngine._clean_text is modelled with the claims about the text
\* SimpleTTSEngine.generate_speech(text, output_path): never raises; returns
\* whether espeak wrote the wav. wav is the content of output_path before.
GenerateSpeech(e, text, wav, env) ==
    LET e1 == IF ~e.attrs.initialized THEN Initialize(e, env.espeakOk) ELSE e
    IN  IF ~e1.attrs.initialized
        THEN [ok |-> FALSE, engine |-> e1, wav |-> wav, ran |-> FALSE]
        ELSE IF env.espeak = "ok"
             THEN [ok |-> TRUE, engine |-> e1, wav |-> "wav", ran |-> TRUE]
             ELSE [ok |-> FALSE, engine |-> e1, wav |-> wav, ran |-> TRUE]

(***************************************************************************)
(* AudioProcessor (simple_audio_utils.py)                                  *)
(***************************************************************************)
\* st_size of a file by its content
FileSize(content) == IF content = "empty" THEN 0 ELSE IF content = "mp3" THEN 1 ELSE 2

\* AudioProcessor._simple_copy: shutil.copy2 of the input file (content wav,
\* "absent" if there is none) to out; its exception is re-raised
SimpleCopy(fl, wav, out, env) ==
    IF env.copyOk /\ env.outDirOk /\ wav # "absent"
    THEN [raised |-> FALSE, path |-> out, files |-> (out :> wav) @@ fl]
    ELSE [raised |-> TRUE, path |-> <<>>, files |-> fl]

\* how the ffmpeg invocation ends: "ok" (exit 0) needs a readable wav; "fail"
\* is a non-zero exit, "timeout" the 60-second TimeoutExpired, "missing" the
\* FileNotFoundError of subprocess.run
FfmpegOutcome(wav, env) ==
    IF ~env.outDirOk THEN "notrun"
    ELSE IF env.ffmpeg = "ok" /\ wav # "wav" THEN "fail"
    ELSE env.ffmpeg

\* process_audio with no fallback: a failure of ffmpeg is raised
ProcessAudioNoFallback(fl, wav, out, env) ==
    IF FfmpegOutcome(wav, env) = "ok"
    THEN [raised |-> FALSE, path |-> out, files |-> (out :> "mp3") @@ fl]
    ELSE [raised |-> TRUE, path |-> <<>>, files |-> fl]

\* AudioProcessor.process_audio: the output directory is made, ffmpeg converts
\* the input; on a non-zero exit or an exception (mkdir failed, tool missing,
\* timeout) the raw file is copied instead. An ffmpeg that fails after it
\* started may leave a partial output, which the copy overwrites.
ProcessAudio(fl, wav, out, env) ==
    LET outcome == FfmpegOutcome(wav, env)
    IN  IF outcome = "ok"
        THEN [raised |-> FALSE, path |-> out, files |-> (out :> "mp3") @@ fl]
        ELSE SimpleCopy(IF outcome \in {"fail", "timeout"} /\ env.partial
                        THEN (out :> "partial") @@ fl ELSE fl,
                        wav, out, env)

\* AudioProcessor.get_duration: 0.0 unless ffprobe prints a duration
GetDuration(fl, path, env) ==
    IF path \notin DOMAIN fl THEN 0
    ELSE IF env.probeOk /\ fl[path] # "empty" THEN 2 ELSE 0

(***************************************************************************)
(* app.py: responses                                                       *)
(***************************************************************************)
HTTPError(code, detail) == [status |-> code, detail |-> detail]

\* TTSResponse(success=False, message=f"TTS generation failed: {e}")
TTSFailed(cause) ==
    [status |-> 200, success |-> FALSE, message |-> "TTS generation failed",
     cause |-> cause, audio_path |-> <<>>, duration |-> 0, file_size |-> 0]

\* TTSResponse(success=True, message="TTS generation completed successfully", ...)
TTSCompleted(rel, duration, size) ==
    [status |-> 200, success |-> TRUE,
     message |-> "TTS generation completed successfully",
     cause |-> "", audio_path |-> rel, duration |-> duration, file_size |-> size]

(***************************************************************************)
(* app.py: generate_tts                                                    *)
(***************************************************************************)
\* what the outside world does during one request: the two uuid4 values, and
\* whether mkdir, the temporary file, espeak, ffmpeg, the copy, stat,
\* ffprobe and unlink succeed
Envs ==
    [u1 : Uuids \cup {<<>>}, u2 : Uuids \cup {<<>>}, mkdirOk : BOOLEAN, tmpOk : BOOLEAN,
     espeakOk : BOOLEAN, espeak : {"ok", "fail"},
     ffmpeg : {"ok", "fail", "timeout", "missing"},
     copyOk : BOOLEAN, statOk : BOOLEAN, probeOk : BOOLEAN, unlinkOk : BOOLEAN,
     outDirOk : BOOLEAN, partial : BOOLEAN]

\* the readiness guard 'if not tts_engine or not tts_engine.is_loaded'
ReadyGuard(e) ==
    IF e.state = "None" THEN "HTTPException"
    ELSE LET a == GetAttr(e, "is_loaded")
         IN  IF a.raised THEN "AttributeError"
             ELSE IF ~a.value THEN "HTTPException" ELSE "pass"

\* the state a handler leaves behind, the exception it ended with ("" when it
\* returned) and the response it gives
Outcome(resp, raised, path, e, ds, fl, tm, bg, synth) ==
    [resp |-> resp, raised |-> raised, path |-> path, engine |-> e, dirs |-> ds,
     files |-> fl, tmp |-> tm, scheduled |-> bg, synth |-> synth]

NoResponse == [status |-> 0]

\* an exception that leaves every except clause of a handler reaches
\* global_exception_handler
GlobalExceptionHandler(exc) == [status |-> 500, detail |-> "Internal server error"]

\* generate_tts without its 'except Exception' clause
TTSExceptMissing(exc) ==
    IF exc = "HTTPException"
    THEN HTTPError(503, "TTS engine not ready")
    ELSE GlobalExceptionHandler(exc)

\* the except clauses of generate_tts (lines 222-233): an HTTPException is
\* re-raised, any other exception becomes a TTSResponse with success=False
TTSExcept(exc) ==
    IF exc = "HTTPException"
    THEN HTTPError(503, "TTS engine not ready")
    ELSE TTSFailed(exc)

\* lines 156-220 of generate_tts: resolve the path, synthesize into a temporary
\* wav, transcode, stat and probe the result, schedule the cleanup; on an
\* exception the inner except clause unlinks the temporary file and re-raises
TTSBody(req, e, ds, fl, tm, env) ==
    LET r == GetChapterPath(req.book, req.chapter, env.u1, env.u2, ds)
        t == <<"tmp", req.id>>
    IN  IF ~env.mkdirOk \/ r.raised
        THEN Outcome(NoResponse, "OSError", <<>>, e, ds, fl, tm, {}, FALSE)
        ELSE IF ~env.tmpOk
        THEN Outcome(NoResponse, "OSError", r.path, e, r.dirs, fl, tm, {}, FALSE)
        ELSE LET g == GenerateSpeech(e, req.text, "empty", env)
                 pa == ProcessAudio(fl, g.wav, r.path, env)
                 created == (t :> g.wav) @@ tm
             IN  IF pa.raised \/ ~env.statOk
                 THEN Outcome(NoResponse, "OSError", r.path, g.engine, r.dirs, pa.files,
                              IF env.unlinkOk THEN tm ELSE created, {}, g.ran)
                 ELSE Outcome(TTSCompleted(RawRelativePath(req.book, req.chapter),
                                           GetDuration(pa.files, r.path, env),
                                           FileSize(pa.files[r.path])),
                              "", r.path, g.engine, r.dirs, pa.files, created, {t}, g.ran)

\* generate_tts: every outcome one /tts request can have
GenerateTTS(req, e, ds, fl, tm) ==
    LET guard == ReadyGuard(e)
        ran == IF guard = "pass"
               THEN {TTSBody(req, e, ds, fl, tm, env) :
                        env \in {v \in Envs : v.u1 \in UuidChoices(req.book)
                                              /\ v.u2 \in UuidChoices(req.chapter)}}
               ELSE {Outcome(NoResponse, guard, <<>>, e, ds, fl, tm, {}, FALSE)}
    IN  {IF o.raised = "" THEN o ELSE [o EXCEPT !.resp = TTSExcept(o.raised)] : o \in ran}

\* cleanup_temp_file: unlink the file if it exists; failures are only logged
CleanupTempFile(tm, t, unlinkOk) ==
    IF t \in DOMAIN tm /\ unlinkOk THEN [x \in DOMAIN tm \ {t} |-> tm[x]] ELSE tm

(***************************************************************************)
(* app.py: get_audio_info and delete_audio                                 *)
(***************************************************************************)
\* get_audio_info(book, chapter)
GetAudioInfo(req, e, ds, fl, tm, u1, u2, mkdirOk, probeOk) ==
    LET r == GetChapterPath(req.book, req.chapter, u1, u2, ds)
    IN  IF ~mkdirOk \/ r.raised
        THEN Outcome(HTTPError(500, "Failed to get audio info"), "OSError", <<>>, e, ds, fl, tm, {}, FALSE)
        ELSE IF r.path \notin DOMAIN fl
        THEN Outcome(HTTPError(404, "Audio file not found"), "HTTPException", r.path, e, r.dirs, fl, tm, {}, FALSE)
        ELSE Outcome([status |-> 200, exists |-> TRUE,
                      path |-> RawRelativePath(req.book, req.chapter),
                      size |-> FileSize(fl[r.path]),
                      duration |-> GetDuration(fl, r.path, [probeOk |-> probeOk])],
                     "", r.path, e, r.dirs, fl, tm, {}, FALSE)

\* delete_audio without the unlink: it reports the deletion and leaves the file
DeleteAudioNoUnlink(req, e, ds, fl, tm, u1, u2, mkdirOk, unlinkOk) ==
    LET r == GetChapterPath(req.book, req.chapter, u1, u2, ds)
    IN  IF ~mkdirOk \/ r.raised
        THEN Outcome(HTTPError(500, "Failed to delete audio file"), "OSError", <<>>, e, ds, fl, tm, {}, FALSE)
        ELSE IF r.path \notin DOMAIN fl
        THEN Outcome(HTTPError(404, "Audio file not found"), "HTTPException", r.path, e, r.dirs, fl, tm, {}, FALSE)
        ELSE Outcome([status |-> 200, success |-> TRUE, message |-> "Audio file deleted"],
                     "", r.path, e, r.dirs, fl, tm, {}, FALSE)

\* delete_audio(book, chapter)
DeleteAudio(req, e, ds, fl, tm, u1, u2, mkdirOk, unlinkOk) ==
    LET r == GetChapterPath(req.book, req.chapter, u1, u2, ds)
    IN  IF ~mkdirOk \/ r.raised
        THEN Outcome(HTTPError(500, "Failed to delete audio file"), "OSError", <<>>, e, ds, fl, tm, {}, FALSE)
        ELSE IF r.path \notin DOMAIN fl
        THEN Outcome(HTTPError(404, "Audio file not found"), "HTTPException", r.path, e, r.dirs, fl, tm, {}, FALSE)
        ELSE IF ~unlinkOk
        THEN Outcome(HTTPError(500, "Failed to delete audio file"), "OSError", r.path, e, r.dirs, fl, tm, {}, FALSE)
        ELSE Outcome([status |-> 200, success |-> TRUE, message |-> "Audio file deleted"],
                     "", r.path, e, r.dirs, [x \in DOMAIN fl \ {r.path} |-> fl[x]], tm, {}, FALSE)

\* health_check: psutil and the disk query are taken to succeed; the response
\* is built from tts_engine.is_loaded, and any exception becomes a 500
HealthCheck(e, ds, fl, tm) ==
    LET a == IF e.state = "None" THEN [raised |-> FALSE, value |-> FALSE]
             ELSE GetAttr(e, "is_loaded")
    IN  IF a.raised
        THEN Outcome(HTTPError(500, "Health check failed"), "AttributeError", <<>>, e, ds, fl, tm, {}, FALSE)
        ELSE Outcome([status |-> 200, health |-> "healthy", model_loaded |-> a.value],
                     "", <<>>, e, ds, fl, tm, {}, FALSE)

(***************************************************************************)
(* EmotiVoiceEngine / TTSEngine: _clean_text and _split_text               *)
(***************************************************************************)
\* emotivoice_engine.py:28  self.max_text_length = 500 (characters per chunk)
max_text_length == 500
\* tts_engine.py:26  self.max_chunk_length = 200 (words per chunk)
max_chunk_length == 200

\* the characters matched by \s (the ASCII part of it)
Whitespace == {" ", "\t", "\n", "\r"}

\* the class [.!?] that ends a sentence (the CJK marks of EmotiVoiceEngine
\* lie outside the ASCII texts modelled here)
SentenceEnd == {".", "!", "?"}

\* the complement of the class [^\w\s.,!?;:\'\"()\-] of _clean_text
CleanKept ==
    WordChars \cup Whitespace \cup {".", ",", "!", "?", ";", ":", "'", "\"", "(", ")", "-"}

\* re.sub(r'\s+', ' ', text.strip())
SubWhitespace(text) ==
    LET t == Strip(text, Whitespace)
        tagged == [i \in DOMAIN t |->
                     <<IF t[i] \in Whitespace THEN " " ELSE t[i],
                       i > 1 /\ t[i] \in Whitespace /\ t[i - 1] \in Whitespace>>]
        kept == SelectSeq(tagged, LAMBDA x : ~x[2])
    IN  [i \in DOMAIN kept |-> kept[i][1]]

\* re.sub(r'[^\w\s.,!?;:\'\"()\-]', '', text)
RemoveSpecial(text) == SelectSeq(text, LAMBDA c : c \in CleanKept)

\* the position of the nearest character before i that is not whitespace, or 0
PrevNonSpace(s, i) ==
    LET d == CHOOSE d \in 1..i : /\ (d = i \/ s[i - d] \notin Whitespace)
                                 /\ \A e \in 1..(d - 1) : s[i - e] \in Whitespace
    IN  i - d

\* the position of the nearest character after i that is not whitespace, or 0
NextNonSpace(s, i) ==
    LET n == Len(s) - i + 1
        d == CHOOSE d \in 1..n : /\ (d = n \/ s[i + d] \notin Whitespace)
                                 /\ \A e \in 1..(d - 1) : s[i + e] \in Whitespace
    IN  IF d = n THEN 0 ELSE i + d

\* re.sub(r'([.!?])\s*([A-Z])', r'\1 \2', text): a capital that follows a
\* sentence end, with any whitespace between them, gets exactly one space
SpaceAfterSentence(s) ==
    LET Target(i) == /\ s[i] \in UpperLetters
                     /\ LET p == PrevNonSpace(s, i)
                        IN  p # 0 /\ s[p] \in SentenceEnd
        Gap(i) == /\ s[i] \in Whitespace
                  /\ LET nx == NextNonSpace(s, i)
                     IN  nx # 0 /\ Target(nx)
        doubled == [j \in 1..(2 * Len(s)) |->
                      IF j % 2 = 1
                      THEN (IF Target((j + 1) \div 2) THEN " " ELSE "")
                      ELSE (IF Gap(j \div 2) THEN "" ELSE s[j \div 2])]
    IN  SelectSeq(doubled, LAMBDA c : c # "")

\* _clean_text(text) of EmotiVoiceEngine and of TTSEngine (they differ only
\* in the CJK ranges)
CleanText(text) ==
    LET t == SpaceAfterSentence(RemoveSpecial(SubWhitespace(text)))
    IN  IF t # <<>> /\ t[Len(t)] \notin SentenceEnd THEN Append(t, ".") ELSE t

\* whether position i lies in a whitespace run that follows a sentence end:
\* the separators of re.split(r'(?<=[.!?])\s+', text)
SentenceBreak(s, i) ==
    /\ s[i] \in Whitespace
    /\ LET p == PrevNonSpace(s, i)
       IN  p # 0 /\ s[p] \in SentenceEnd

\* re.split(r'(?<=[.!?])\s+', text)
Sentences(s) ==
    LET idx == [i \in DOMAIN s |-> i]
        starts == SelectSeq(idx, LAMBDA i : SentenceBreak(s, i) /\ s[i - 1] \notin Whitespace)
        ends == SelectSeq(idx, LAMBDA i : /\ SentenceBreak(s, i)
                                          /\ (i = Len(s) \/ s[i + 1] \notin Whitespace))
        n == Len(starts) + 1
    IN  [k \in 1..n |-> SubSeq(s, IF k = 1 THEN 1 ELSE ends[k - 1] + 1,
                                  IF k = n THEN Len(s) ELSE starts[k] - 1)]

\* str.split(): the maximal runs of characters that are not whitespace
Words(s) ==
    LET idx == [i \in DOMAIN s |-> i]
        starts == SelectSeq(idx, LAMBDA i : s[i] \notin Whitespace
                                            /\ (i = 1 \/ s[i - 1] \in Whitespace))
        ends == SelectSeq(idx, LAMBDA i : s[i] \notin Whitespace
                                          /\ (i = Len(s) \/ s[i + 1] \in Whitespace))
    IN  [k \in DOMAIN starts |-> SubSeq(s, starts[k], ends[k])]

\* " ".join(items), computed by halves
RECURSIVE JoinSpace(_)
JoinSpace(items) ==
    IF items = <<>> THEN <<>>
    ELSE IF Len(items) = 1 THEN items[1]
    ELSE LET h == Len(items) \div 2
         IN  JoinSpace(SubSeq(items, 1, h)) \o <<" ">> \o JoinSpace(SubSeq(items, h + 1, Len(items)))

\* the loop of EmotiVoiceEngine._split_text (lines 339-345) from sentence i on
RECURSIVE PackSentences(_, _, _, _)
PackSentences(sentences, i, chunks, current_chunk) ==
    IF i > Len(sentences) THEN [chunks |-> chunks, current_chunk |-> current_chunk]
    ELSE LET sentence == sentences[i]
         IN  IF Len(current_chunk) + Len(sentence) > max_text_length /\ current_chunk # <<>>
             THEN PackSentences(sentences, i + 1,
                                Append(chunks, Strip(current_chunk, Whitespace)), sentence)
             ELSE PackSentences(sentences, i + 1, chunks,
                                IF current_chunk # <<>>
                                THEN current_chunk \o <<" ">> \o sentence
                                ELSE sentence)

\* _split_text without the step that adds the last chunk
DropLastChunk(r) == r.chunks

\* 'if current_chunk.strip(): chunks.append(current_chunk.strip())'
AddLastChunk(r) ==
    IF Strip(r.current_chunk, Whitespace) # <<>>
    THEN Append(r.chunks, Strip(r.current_chunk, Whitespace))
    ELSE r.chunks

\* [text[i:i + n] for i in range(0, len(text), n)]
SliceByLength(text, n) ==
    [k \in 1..((Len(text) + n - 1) \div n) |->
        SubSeq(text, (k - 1) * n + 1, IF k * n < Len(text) THEN k * n ELSE Len(text))]

\* EmotiVoiceEngine._split_text(text)
SplitTextEmoti(text) ==
    LET chunks == AddLastChunk(PackSentences(Sentences(text), 1, <<>>, <<>>))
    IN  IF chunks = <<>> THEN SliceByLength(text, max_text_length) ELSE chunks

\* the loop of TTSEngine._split_text (lines 164-174) from sentence i on
RECURSIVE PackSentencesByWords(_, _, _, _, _)
PackSentencesByWords(sentences, i, chunks, current_chunk, current_word_count) ==
    IF i > Len(sentences) THEN [chunks |-> chunks, current_chunk |-> current_chunk]
    ELSE LET sentence == sentences[i]
             sentence_words == Len(Words(sentence))
         IN  IF current_word_count + sentence_words > max_chunk_length /\ current_chunk # <<>>
             THEN PackSentencesByWords(sentences, i + 1,
                                       Append(chunks, Strip(current_chunk, Whitespace)),
                                       sentence, sentence_words)
             ELSE PackSentencesByWords(sentences, i + 1, chunks,
                                       IF current_chunk # <<>>
                                       THEN current_chunk \o <<" ">> \o sentence
                                       ELSE sentence,
                                       current_word_count + sentence_words)

\* TTSEngine._split_text(text)
SplitTextBark(text) ==
    LET chunks == AddLastChunk(PackSentencesByWords(Sentences(text), 1, <<>>, <<>>, 0))
        words == Words(text)
    IN  IF chunks = <<>>
        THEN [k \in DOMAIN SliceByLength(words, max_chunk_length) |->
                 JoinSpace(SliceByLength(words, max_chunk_length)[k])]
        ELSE chunks

(***************************************************************************)
(* SimpleTTSEngine._clean_text                                             *)
(***************************************************************************)
\* simple_tts_engine.py:77  if len(text) > 500
SimpleTextLimit == 500

\* ' '.join(text.split())
JoinedWords(text) == JoinSpace(Words(text))

\* SimpleTTSEngine._clean_text(text): the words joined by single spaces, cut
\* to the first 500 characters followed by '...' when longer; the result is
\* the text argument of the espeak command line
SimpleCleanText(text) ==
    LET t == JoinedWords(text)
    IN  IF Len(t) > SimpleTextLimit
        THEN SubSeq(t, 1, SimpleTextLimit) \o <<".", ".", ".">>
        ELSE t

(***************************************************************************)
(* EmotiVoiceEngine / TTSEngine: _normalize_audio                          *)
(***************************************************************************)
\* a sample is an integer number of quarters: -2 is -0.5, 1 is 0.25
SampleValues == -2..2

Abs(x) == IF x < 0 THEN -x ELSE x

RECURSIVE SumSeq(_)
SumSeq(xs) == IF xs = <<>> THEN 0 ELSE Head(xs) + SumSeq(Tail(xs))

\* the largest element of a non-empty sequence of numbers
MaxOf(xs) == CHOOSE m \in {xs[i] : i \in DOMAIN xs} : \A i \in DOMAIN xs : xs[i] <= m

\* _normalize_audio(audio): the samples it returns, as fractions num/den.
\* With n samples, n * (audio - np.mean(audio)) is n * audio[i] - sum, so
\* max_val > 0 exactly when some n * audio[i] - sum is not 0, and then
\* audio * (0.9 / max_val) is 9 * (n * audio[i] - sum) / (10 * n * max_val).
\* np.max of an empty array raises ValueError.
NormalizeAudio(wave) ==
    IF wave = <<>> THEN [raised |-> TRUE, samples |-> <<>>]
    ELSE LET n == Len(wave)
             centred == [i \in DOMAIN wave |-> n * wave[i] - SumSeq(wave)]
             max_val == MaxOf([i \in DOMAIN wave |-> Abs(centred[i])])
         IN  [raised |-> FALSE,
              samples |-> IF max_val > 0
                          THEN [i \in DOMAIN wave |-> [num |-> 9 * centred[i], den |-> 10 * max_val]]
                          ELSE [i \in DOMAIN wave |-> [num |-> centred[i], den |-> n]]]

(***************************************************************************)
(* EmotiVoiceEngine / TTSEngine: generate_speech and _generate_chunk       *)
(***************************************************************************)
\* emotivoice_engine.py:27  self.sample_rate = 16000
sample_rate == 16000
\* tts_engine.py:11, 25  self.sample_rate = SAMPLE_RATE, 24000 in bark
SAMPLE_RATE == 24000

SampleRate(kind) == IF kind = "emoti" THEN sample_rate ELSE SAMPLE_RATE

\* A waveform is a sequence of segments; a segment is n samples that are
\* speech or zeros. 'of' remembers the chunk a segment was made for (0 for a
\* pause); it is not part of the array.
Segment(kind, n, of) == [kind |-> kind, n |-> n, of |-> of]

\* np.zeros(int(2 * self.sample_rate)), returned when the generation raised
FailureSilence(kind, i) == <<Segment("zeros", 2 * SampleRate(kind), i)>>

\* np.zeros(int(0.3 * self.sample_rate)) in EmotiVoiceEngine,
\* np.zeros(int(0.5 * self.sample_rate)) in TTSEngine
Pause(kind) ==
    <<Segment("zeros", IF kind = "emoti" THEN (3 * SampleRate(kind)) \div 10
                       ELSE SampleRate(kind) \div 2, 0)>>

\* what the backend does with a chunk: it returns a waveform with samples, it
\* returns an array of no samples, or it raises
BackendOutcomes == {"speech", "empty", "raise"}

\* _generate_chunk that lets the array be empty when the generation raised
GenerateChunkNoSilence(kind, i, backend) ==
    IF backend = "speech" THEN <<Segment("speech", SampleRate(kind), i)>> ELSE <<>>

\* _generate_chunk(chunk i): the waveform of the backend (taken as one second
\* long when it has samples), or the silence of the except clause
GenerateChunk(kind, i, backend) ==
    IF backend = "speech" THEN <<Segment("speech", SampleRate(kind), i)>>
    ELSE IF backend = "empty" THEN <<>>
    ELSE FailureSilence(kind, i)

\* np.concatenate(audio_arrays)
RECURSIVE Concatenate(_)
Concatenate(arrays) ==
    IF arrays = <<>> THEN <<>> ELSE Head(arrays) \o Concatenate(Tail(arrays))

\* the body of the loop of generate_speech after the await, for chunk i of n:
\* EmotiVoiceEngine (lines 183-190) skips an empty array together with its
\* pause, TTSEngine (lines 90-96) appends whatever came back
AppendChunk(kind, audio_arrays, audio_array, i, n) ==
    IF kind = "emoti" /\ audio_array = <<>> THEN audio_arrays
    ELSE IF i < n THEN audio_arrays \o <<audio_array, Pause(kind)>>
    ELSE Append(audio_arrays, audio_array)

\* the end of generate_speech (lines 192-210): concatenate, normalize, write.
\* _normalize_audio changes sample values, not the segments; np.max raises
\* ValueError on an array of no samples. The write is taken to succeed.
FinishSpeech(audio_arrays) ==
    IF audio_arrays = <<>> THEN [result |-> "RuntimeError", file |-> <<>>]
    ELSE IF Concatenate(audio_arrays) = <<>> THEN [result |-> "ValueError", file |-> <<>>]
    ELSE [result |-> "written", file |-> Concatenate(audio_arrays)]

\* the chunks generate_speech makes of a text
ChunksOf(kind, text) ==
    IF kind = "emoti" THEN SplitTextEmoti(CleanText(text)) ELSE SplitTextBark(CleanText(text))

IdleCall ==
    [pc |-> "idle", n |-> 0, i |-> 0, audio_arrays |-> <<>>, returned |-> <<>>,
     outcomes |-> <<>>, result |-> "", file |-> <<>>]

(***************************************************************************)
(* EmotiVoiceEngine._generate_with_espeak                                  *)
(***************************************************************************)
\* what the outside world does during one _generate_with_espeak call: whether
\* the temporary file can be created, how the espeak invocation ends
\* ("missing" is the FileNotFoundError of subprocess.run), whether sf.read
\* reads the file, whether the rate it reports is self.sample_rate, whether
\* librosa.resample and os.unlink succeed
EspeakEnvs ==
    [tmpOk : BOOLEAN, espeak : {"ok", "fail", "missing"}, readOk : BOOLEAN,
     sameRate : BOOLEAN, resampleOk : BOOLEAN, unlinkOk : BOOLEAN]

\* the exit path one call takes: the value returned ("speech" or the two
\* seconds of zeros), whether the temporary file was created, whether
\* os.unlink was reached, and whether the file exists afterwards
EspeakExit(exit, audio, created, reached, left) ==
    [exit |-> exit, audio |-> audio, created |-> created, unlinkReached |-> reached,
     left |-> left]

\* _generate_with_espeak(text, speed): every statement is inside one try whose
\* except clause logs and returns zeros; os.unlink is called on the two
\* branches of 'if result.returncode == 0' only
GenerateWithEspeak(env) ==
    IF ~env.tmpOk THEN EspeakExit("no temp file", "zeros", FALSE, FALSE, FALSE)
    ELSE IF env.espeak = "missing" THEN EspeakExit("espeak missing", "zeros", TRUE, FALSE, TRUE)
    ELSE IF env.espeak = "fail"
    THEN EspeakExit("espeak failed", "zeros", TRUE, TRUE, ~env.unlinkOk)
    ELSE IF ~env.readOk THEN EspeakExit("unreadable", "zeros", TRUE, FALSE, TRUE)
    ELSE IF ~env.sameRate /\ ~env.resampleOk
    THEN EspeakExit("resample failed", "zeros", TRUE, FALSE, TRUE)
    ELSE IF ~env.unlinkOk THEN EspeakExit("unlink failed", "zeros", TRUE, TRUE, TRUE)
    ELSE EspeakExit("success", "speech", TRUE, TRUE, FALSE)

(***************************************************************************)
(* AudioProcessor._apply_processing (audio_utils.py)                       *)
(***************************************************************************)
\* audio_utils.py:19  self.target_sample_rate = 22050
target_sample_rate == 22050

\* the processing steps, in the order _apply_processing runs them
ProcSteps == <<"resample", "trim", "normalize", "compression", "noise reduction", "clip">>

\* a waveform: its sample rate and the steps applied to the loaded data
Waveform(rate) == [rate |-> rate, applied |-> <<>>]

\* the waveform a step returns when it succeeds: the data are rewritten (a
\* resampling to another rate always changes them)
Applied(w, step) ==
    [rate |-> IF step = "resample" THEN target_sample_rate ELSE w.rate,
     applied |-> Append(w.applied, step)]

\* one statement 'audio_data = step(audio_data)' of the try block: when the
\* step raises, control leaves for the except clause with audio_data as it is
Assign(st, step, failing) ==
    IF st.left THEN st
    ELSE IF step \in failing
    THEN [st EXCEPT !.left = TRUE, !.raisedIn = @ \cup {step}]
    ELSE [st EXCEPT !.audio_data = Applied(@, step)]

\* assignment of the outcome of _apply_compression or _apply_noise_reduction:
\* their own except clauses log the error and return the data they were given
AssignGuarded(st, step, failing) ==
    IF st.left THEN st
    ELSE IF step \in failing
    THEN [st EXCEPT !.raisedIn = @ \cup {step}]
    ELSE [st EXCEPT !.audio_data = Applied(@, step)]

\* _apply_processing(audio_data, sample_rate=rate, quality); failing holds the
\* steps that raise if they run. The except clause returns the local
\* audio_data, which the statements before the failing one have reassigned.
ApplyProcessing(audio_data, rate, quality, failing) ==
    LET s0 == [audio_data |-> audio_data, left |-> FALSE, raisedIn |-> {}]
        s1 == IF rate # target_sample_rate THEN Assign(s0, "resample", failing) ELSE s0
        s2 == Assign(s1, "trim", failing)
        s3 == Assign(s2, "normalize", failing)
        s4 == IF quality = "high" THEN AssignGuarded(s3, "compression", failing) ELSE s3
        s5 == IF quality = "high" THEN AssignGuarded(s4, "noise reduction", failing) ELSE s4
        s6 == Assign(s5, "clip", failing)
    IN  [raised |-> FALSE, raisedIn |-> s6.raisedIn, returned |-> s6.audio_data]

(***************************************************************************)
(* State                                                                   *)
(***************************************************************************)
VARIABLES
    pbook,      \* SpecPath: the book argument of the calls
    pchapter,   \* SpecPath: the chapter argument of the calls
    lastCall,   \* SpecPath: the outcome of the latest get_chapter_path call
    prevCall,   \* SpecPath: the outcome of the call before it
    dirs,       \* the directories that exist (full paths)
    files,      \* the files below the audio root: path -> content
    tmp,        \* the temporary wav files: name -> content
    svc,        \* "init" before startup_event, "up" once serving, "down" if it raised
    tts_engine, \* the module global tts_engine
    inbox,      \* requests received and not yet handled, in arrival order
    nextId,     \* the id the next request gets
    last,       \* the request handled latest, with its response and resolved path
    ttsDone,    \* ids of the valid /tts requests handled with the engine initialized, in order
    failedJobs, \* ids of the /tts requests whose handler ended with an exception
    synthLog,   \* ids of the requests for which espeak was started, in order
    cleanups,   \* temporary files whose background cleanup is scheduled
    deletedPairs, \* (book, chapter) pairs deleted with success and not generated since
    ttext,      \* SpecText: the text given to the engines
    emotiSplit, \* SpecText: what EmotiVoiceEngine makes of ttext
    barkSplit,  \* SpecText: what TTSEngine makes of ttext
    audio,      \* SpecNorm: the waveform given to _normalize_audio
    normalized, \* SpecNorm: the waveform it returned
    srcFile,    \* SpecAudio: the content of the raw input file ("absent" if none)
    outFiles,   \* SpecAudio: the content of each destination path
    paCall,     \* SpecAudio: the latest process_audio call and its outcome
    engine,     \* SpecEngine: the engine instance (its class and is_loaded)
    calls,      \* SpecEngine: the generate_speech calls made on the instance
    simpleClean, \* SpecText: what SimpleTTSEngine._clean_text makes of ttext
    espeakTmp,  \* SpecEspeak: the temporary wav files that exist
    espeakCalls, \* SpecEspeak: the _generate_with_espeak calls made, in order
    shelf,      \* SpecCleanup: the artifact files under the audio root
    owners,     \* SpecCleanup: the books whose chapters were stored
    cleanup,    \* SpecCleanup: the latest cleanup_orphaned_files call
    procIn,     \* SpecProc: the arguments of _apply_processing
    procOut     \* SpecProc: how the call ended

pathVars == <<pbook, pchapter, lastCall, prevCall>>

svcVars == <<files, tmp, svc, tts_engine, inbox, nextId, last, ttsDone, failedJobs, synthLog,
             cleanups, deletedPairs>>

textVars == <<ttext, emotiSplit, barkSplit, simpleClean>>

normVars == <<audio, normalized>>

audioVars == <<srcFile, outFiles, paCall>>

engineVars == <<engine, calls>>

espeakVars == <<espeakTmp, espeakCalls>>

cleanupVars == <<shelf, owners, cleanup>>

procVars == <<procIn, procOut>>

moreVars == <<espeakVars, cleanupVars, procVars>>

libVars == <<textVars, normVars, audioVars, engineVars, moreVars>>

vars == <<pathVars, dirs, svcVars, libVars>>

NoRequest == [handled |-> FALSE]

EmptyMap == [x \in {} |-> "empty"]

SvcIdle ==
    /\ files = EmptyMap
    /\ tmp = EmptyMap
    /\ svc = "init"
    /\ tts_engine = EngineNone
    /\ inbox = <<>>
    /\ nextId = 1
    /\ last = NoRequest
    /\ ttsDone = <<>>
    /\ failedJobs = {}
    /\ synthLog = <<>>
    /\ cleanups = {}
    /\ deletedPairs = {}

PathIdle ==
    /\ pbook = <<>>
    /\ pchapter = <<>>
    /\ lastCall = NoCall
    /\ prevCall = NoCall
    /\ dirs = {}

NotDone == [done |-> FALSE]

TextIdle == ttext = <<>> /\ emotiSplit = NotDone /\ barkSplit = NotDone /\ simpleClean = NotDone

NormIdle == audio = <<>> /\ normalized = NotDone

AudioIdle == srcFile = "absent" /\ outFiles = <<>> /\ paCall = NoCall

EngineIdle == engine = [kind |-> "none", is_loaded |-> FALSE] /\ calls = <<>>

EspeakIdle == espeakTmp = {} /\ espeakCalls = <<>>

CleanupIdle == shelf = {} /\ owners = {} /\ cleanup = [called |-> FALSE, n |-> 0]

ProcIdle == procIn = NoCall /\ procOut = NotDone

MoreIdle == EspeakIdle /\ CleanupIdle /\ ProcIdle

LibIdle == TextIdle /\ NormIdle /\ AudioIdle /\ EngineIdle /\ MoreIdle

(***************************************************************************)
(* SpecPath: get_chapter_path applied repeatedly to one (book, chapter)    *)
(***************************************************************************)
InitPath ==
    /\ pbook \in BookNames
    /\ pchapter \in ChapterNames
    /\ lastCall = NoCall
    /\ prevCall = NoCall
    /\ dirs = {AudioRoot}
    /\ SvcIdle
    /\ LibIdle

ResolveCall(u1, u2) ==
    LET r == GetChapterPath(pbook, pchapter, u1, u2, dirs)
    IN  /\ prevCall' = lastCall
        /\ lastCall' = [called |-> TRUE, raised |-> r.raised, path |-> r.path]
        /\ dirs' = r.dirs
        /\ UNCHANGED <<pbook, pchapter, svcVars, libVars>>

NextPath == \E u1 \in UuidChoices(pbook), u2 \in UuidChoices(pchapter) : ResolveCall(u1, u2)

SpecPath == InitPath /\ [][NextPath]_vars

(***************************************************************************)
(* SpecText: _clean_text followed by _split_text, applied to one text      *)
(***************************************************************************)
\* a letter, a capital, a sentence end, a space and a character that
\* _clean_text removes
TextAlphabet == {"a", "A", ".", " ", "@"}

\* every text over TextAlphabet of length 0..MaxTextChars
ShortTexts == UNION {[1..k -> TextAlphabet] : k \in 0..MaxTextChars}

\* a sentence of n characters made of one word
LongSentence(n) == Rep("a", n - 1) \o <<".">>

\* a sentence of w one-letter words
WordySentence(w) == [i \in 1..(2 * w) |-> IF i = 2 * w THEN "." ELSE IF i % 2 = 1 THEN "a" ELSE " "]

\* sentences around the character limit and around the word limit
SentenceShapes ==
    {LongSentence(max_text_length \div 2), LongSentence(max_text_length),
     LongSentence(max_text_length + 1), WordySentence(max_chunk_length \div 2),
     WordySentence(max_chunk_length + 1)}

\* the texts of 1..MaxSentences sentences from SentenceShapes, joined by spaces
LongTexts ==
    {JoinSpace(ss) : ss \in UNION {[1..k -> SentenceShapes] : k \in 1..MaxSentences}}

Texts == ShortTexts \cup LongTexts

InitText ==
    /\ ttext \in Texts
    /\ emotiSplit = NotDone
    /\ barkSplit = NotDone
    /\ simpleClean = NotDone
    /\ PathIdle /\ SvcIdle /\ NormIdle /\ AudioIdle /\ EngineIdle /\ MoreIdle

\* EmotiVoiceEngine.generate_speech, lines 165-168
SplitEmoti ==
    /\ ~emotiSplit.done
    /\ emotiSplit' = [done |-> TRUE, cleaned |-> CleanText(ttext),
                      chunks |-> SplitTextEmoti(CleanText(ttext))]
    /\ UNCHANGED <<ttext, barkSplit, simpleClean, pathVars, dirs, svcVars, normVars, audioVars,
                   engineVars, moreVars>>

\* TTSEngine.generate_speech, lines 72-75
SplitBark ==
    /\ ~barkSplit.done
    /\ barkSplit' = [done |-> TRUE, cleaned |-> CleanText(ttext),
                     chunks |-> SplitTextBark(CleanText(ttext))]
    /\ UNCHANGED <<ttext, emotiSplit, simpleClean, pathVars, dirs, svcVars, normVars, audioVars,
                   engineVars, moreVars>>

NextText == SplitEmoti \/ SplitBark

SpecText == InitText /\ [][NextText]_vars

(***************************************************************************)
(* SpecSimple: SimpleTTSEngine._clean_text applied to one text             *)
(***************************************************************************)
\* SimpleTTSEngine.generate_speech, lines 46-56: the text is cleaned and put
\* on the espeak command line
CleanSimple ==
    /\ ~simpleClean.done
    /\ simpleClean' = [done |-> TRUE, sent |-> SimpleCleanText(ttext)]
    /\ UNCHANGED <<ttext, emotiSplit, barkSplit, pathVars, dirs, svcVars, normVars, audioVars,
                   engineVars, moreVars>>

NextSimple == CleanSimple

SpecSimple == InitText /\ [][NextSimple]_vars

(***************************************************************************)
(* SpecNorm: _normalize_audio applied to one waveform                      *)
(***************************************************************************)
InitNorm ==
    /\ audio \in UNION {[1..k -> SampleValues] : k \in 0..MaxSamples}
    /\ normalized = NotDone
    /\ PathIdle /\ SvcIdle /\ TextIdle /\ AudioIdle /\ EngineIdle /\ MoreIdle

Normalize ==
    /\ ~normalized.done
    /\ normalized' = [done |-> TRUE, out |-> NormalizeAudio(audio)]
    /\ UNCHANGED <<audio, pathVars, dirs, svcVars, textVars, audioVars, engineVars, moreVars>>

NextNorm == Normalize

SpecNorm == InitNorm /\ [][NextNorm]_vars

(***************************************************************************)
(* SpecAudio: process_audio called on one raw input file                   *)
(***************************************************************************)
\* the artifact of ('b1', '1'), left under the audio root by an earlier run
OldArtifact == AudioRoot \o <<"/", "b", "1", "/">> \o ChapterPrefix \o <<"1">> \o Mp3Suffix

\* the artifact path of ('a_b', '1')
OtherArtifact == AudioRoot \o <<"/", "a", "_", "b", "/">> \o ChapterPrefix \o <<"1">> \o Mp3Suffix

\* what the outside world does during one process_audio call
AudioEnvs ==
    [ffmpeg : {"ok", "fail", "timeout", "missing"}, copyOk : BOOLEAN,
     outDirOk : BOOLEAN, partial : BOOLEAN]

InitAudio ==
    /\ srcFile \in {"wav", "empty", "absent"}
    /\ outFiles \in {EmptyMap, (OldArtifact :> "mp3")}
    /\ paCall = NoCall
    /\ PathIdle /\ SvcIdle /\ TextIdle /\ NormIdle /\ EngineIdle /\ MoreIdle

\* await audio_processor.process_audio(input_path, output_path)
CallProcessAudio(out, env) ==
    LET r == ProcessAudio(outFiles, srcFile, out, env)
    IN  /\ outFiles' = r.files
        /\ paCall' = [called |-> TRUE, out |-> out, ffmpeg |-> FfmpegOutcome(srcFile, env),
                      copyOk |-> env.copyOk, outDirOk |-> env.outDirOk,
                      raised |-> r.raised, path |-> r.path]
        /\ UNCHANGED <<srcFile, pathVars, dirs, svcVars, textVars, normVars, engineVars, moreVars>>

NextAudio == \E out \in {OldArtifact, OtherArtifact}, env \in AudioEnvs : CallProcessAudio(out, env)

SpecAudio == InitAudio /\ [][NextAudio]_vars

(***************************************************************************)
(* SpecEngine: generate_speech calls on one EmotiVoiceEngine or TTSEngine  *)
(***************************************************************************)
\* '@' (no chunk), 'Hi.' (one chunk), and a text of two sentences that each
\* fill a chunk
EngineTexts ==
    {<<"@">>, <<"H", "i", ".">>,
     JoinSpace(<<LongSentence(max_text_length), WordySentence(max_chunk_length)>>)}

\* len(chunks) in generate_speech, for each engine class and text
ChunkCount ==
    [kind \in {"emoti", "bark"} |-> [text \in EngineTexts |-> Len(ChunksOf(kind, text))]]

InitEngine ==
    /\ engine \in [kind : {"emoti", "bark"}, is_loaded : {FALSE}]
    /\ calls = [c \in 1..NumCalls |-> IdleCall]
    /\ PathIdle /\ SvcIdle /\ TextIdle /\ NormIdle /\ AudioIdle /\ MoreIdle

EngineUnchanged == UNCHANGED <<pathVars, dirs, svcVars, textVars, normVars, audioVars, moreVars>>

\* load_models / load_model: is_loaded is set once the loading returned
LoadModels ==
    /\ ~engine.is_loaded
    /\ engine' = [engine EXCEPT !.is_loaded = TRUE]
    /\ UNCHANGED calls
    /\ EngineUnchanged

\* generate_speech(text, ...) up to its first await: the text is cleaned and
\* split and the first chunk is handed to the default executor
CallGenerateSpeech(c, text) ==
    /\ calls[c].pc = "idle"
    /\ LET n == ChunkCount[engine.kind][text]
       IN  calls' = [calls EXCEPT ![c] =
              IF ~engine.is_loaded THEN [@ EXCEPT !.pc = "done", !.result = "RuntimeError"]
              ELSE IF n = 0
              THEN [@ EXCEPT !.pc = "done", !.result = FinishSpeech(<<>>).result]
              ELSE [@ EXCEPT !.pc = "queued", !.n = n, !.i = 1]]
    /\ UNCHANGED engine
    /\ EngineUnchanged

\* a worker thread of the default executor (it has at least five) takes the
\* job and enters _generate_chunk
RunChunk(c) ==
    /\ calls[c].pc = "queued"
    /\ calls' = [calls EXCEPT ![c].pc = "running"]
    /\ UNCHANGED engine
    /\ EngineUnchanged

\* _generate_chunk returns in the worker thread
ChunkDone(c, backend) ==
    /\ calls[c].pc = "running"
    /\ calls' = [calls EXCEPT ![c] =
                    [@ EXCEPT !.pc = "returned",
                              !.returned = GenerateChunk(engine.kind, calls[c].i, backend),
                              !.outcomes = Append(calls[c].outcomes, backend)]]
    /\ UNCHANGED engine
    /\ EngineUnchanged

\* the event loop resumes the coroutine after the await: the array is added,
\* and either the next chunk is handed to the executor or the audio is
\* concatenated, normalized and written
Resume(c) ==
    /\ calls[c].pc = "returned"
    /\ LET k == calls[c]
           arrays == AppendChunk(engine.kind, k.audio_arrays, k.returned, k.i, k.n)
       IN  calls' = [calls EXCEPT ![c] =
              IF k.i < k.n
              THEN [k EXCEPT !.pc = "queued", !.i = k.i + 1, !.audio_arrays = arrays,
                             !.returned = <<>>]
              ELSE [k EXCEPT !.pc = "done", !.audio_arrays = arrays, !.returned = <<>>,
                             !.result = FinishSpeech(arrays).result,
                             !.file = FinishSpeech(arrays).file]]
    /\ UNCHANGED engine
    /\ EngineUnchanged

NextEngine ==
    \/ LoadModels
    \/ \E c \in 1..NumCalls, text \in EngineTexts : CallGenerateSpeech(c, text)
    \/ \E c \in 1..NumCalls : RunChunk(c)
    \/ \E c \in 1..NumCalls, backend \in BackendOutcomes : ChunkDone(c, backend)
    \/ \E c \in 1..NumCalls : Resume(c)

SpecEngine == InitEngine /\ [][NextEngine]_vars

(***************************************************************************)
(* SpecEspeak: _generate_with_espeak called repeatedly                     *)
(***************************************************************************)
InitEspeak ==
    /\ espeakTmp = {}
    /\ espeakCalls = <<>>
    /\ PathIdle /\ SvcIdle /\ TextIdle /\ NormIdle /\ AudioIdle /\ EngineIdle
    /\ CleanupIdle /\ ProcIdle

\* one call of _generate_with_espeak; its temporary file is named after the
\* call (NamedTemporaryFile gives every call a fresh name)
CallGenerateWithEspeak(env) ==
    /\ Len(espeakCalls) < MaxEspeakCalls
    /\ LET r == GenerateWithEspeak(env)
           t == Len(espeakCalls) + 1
       IN  /\ espeakCalls' = Append(espeakCalls, r)
           /\ espeakTmp' = IF r.left THEN espeakTmp \cup {t} ELSE espeakTmp
    /\ UNCHANGED <<pathVars, dirs, svcVars, textVars, normVars, audioVars, engineVars,
                   cleanupVars, procVars>>

NextEspeak == \E env \in EspeakEnvs : CallGenerateWithEspeak(env)

SpecEspeak == InitEspeak /\ [][NextEspeak]_vars

(***************************************************************************)
(* SpecCleanup: chapters stored through get_chapter_path, and              *)
(* cleanup_orphaned_files called on the audio root                         *)
(***************************************************************************)
InitCleanup ==
    /\ pbook = <<>> /\ pchapter = <<>> /\ lastCall = NoCall /\ prevCall = NoCall
    /\ dirs = {AudioRoot}
    /\ shelf = {}
    /\ owners = {}
    /\ cleanup = [called |-> FALSE, n |-> 0]
    /\ SvcIdle /\ TextIdle /\ NormIdle /\ AudioIdle /\ EngineIdle /\ EspeakIdle /\ ProcIdle

\* a caller resolves get_chapter_path(book, chapter) and writes the artifact
\* at the path it returns
StoreChapter(book, chapter) ==
    /\ LET r == GetChapterPath(book, chapter, <<>>, <<>>, dirs)
       IN  /\ ~r.raised
           /\ dirs' = r.dirs
           /\ shelf' = shelf \cup {r.path}
    /\ owners' = owners \cup {book}
    /\ UNCHANGED <<cleanup, pathVars, svcVars, textVars, normVars, audioVars, engineVars,
                   espeakVars, procVars>>

\* cleanup_orphaned_files(valid_books)
CallCleanup(given, valid_books, failing) ==
    /\ cleanup.n < MaxCleanups
    /\ LET r == CleanupOrphanedFiles(dirs, shelf, given, valid_books, failing)
       IN  /\ dirs' = r.dirs
           /\ shelf' = r.files
           /\ cleanup' = [called |-> TRUE, n |-> cleanup.n + 1, given |-> given,
                          valid_books |-> valid_books, returned |-> r.deleted_count]
    /\ UNCHANGED <<owners, pathVars, svcVars, textVars, normVars, audioVars, engineVars,
                   espeakVars, procVars>>

NextCleanup ==
    \/ \E book \in SvcBooks, chapter \in SvcChapters : StoreChapter(book, chapter)
    \/ \E valid_books \in SUBSET SvcBooks, failing \in SUBSET BookDirs(dirs) :
          CallCleanup(TRUE, valid_books, failing)
    \/ CallCleanup(FALSE, {}, {})

SpecCleanup == InitCleanup /\ [][NextCleanup]_vars

(***************************************************************************)
(* SpecProc: _apply_processing called on one loaded waveform               *)
(***************************************************************************)
InitProc ==
    /\ procIn \in [called : {TRUE}, sample_rate : {target_sample_rate, SAMPLE_RATE},
                    quality : {"standard", "high"}]
    /\ procOut = NotDone
    /\ PathIdle /\ SvcIdle /\ TextIdle /\ NormIdle /\ AudioIdle /\ EngineIdle
    /\ EspeakIdle /\ CleanupIdle

\* processed_audio = await self._apply_processing(audio_data, sample_rate, quality)
CallApplyProcessing(failing) ==
    /\ ~procOut.done
    /\ LET r == ApplyProcessing(Waveform(procIn.sample_rate), procIn.sample_rate,
                                procIn.quality, failing)
       IN  procOut' = [done |-> TRUE, failing |-> failing, raised |-> r.raised,
                       raisedIn |-> r.raisedIn, returned |-> r.returned]
    /\ UNCHANGED <<procIn, pathVars, dirs, svcVars, textVars, normVars, audioVars, engineVars,
                   espeakVars, cleanupVars>>

NextProc == \E failing \in SUBSET {ProcSteps[i] : i \in DOMAIN ProcSteps} : CallApplyProcessing(failing)

SpecProc == InitProc /\ [][NextProc]_vars

(***************************************************************************)
(* Spec: the running service                                               *)
(***************************************************************************)
Init ==
    /\ pbook = <<>>
    /\ pchapter = <<>>
    /\ lastCall = NoCall
    /\ prevCall = NoCall
    /\ \/ dirs = {} /\ files = EmptyMap
       \/ dirs = {AudioRoot, AudioRoot \o <<"/", "b", "1">>} /\ files = (OldArtifact :> "mp3")
       \/ dirs = {AudioRoot, AudioRoot \o <<"/", "a", "_", "b">>} /\ files = (OtherArtifact :> "mp3")
    /\ tmp = EmptyMap
    /\ svc = "init"
    /\ tts_engine = EngineNone
    /\ inbox = <<>>
    /\ nextId = 1
    /\ last = NoRequest
    /\ ttsDone = <<>>
    /\ failedJobs = {}
    /\ synthLog = <<>>
    /\ cleanups = {}
    /\ deletedPairs = {}
    /\ LibIdle

\* startup_event: FileManager(audio_path) creates the audio root (and raises if
\* it cannot, which ends the service); tts_engine.initialize() probes espeak
Startup(mkdirOk, espeakOk) ==
    /\ svc = "init"
    /\ IF mkdirOk
       THEN /\ svc' = "up"
            /\ dirs' = Mkdir(dirs, AudioRoot, TRUE).dirs
            /\ tts_engine' = Initialize(NewSimpleTTSEngine, espeakOk)
       ELSE /\ svc' = "down"
            /\ UNCHANGED <<dirs, tts_engine>>
    /\ UNCHANGED <<pathVars, files, tmp, inbox, nextId, last, ttsDone, failedJobs, synthLog, cleanups,
                   deletedPairs, libVars>>

\* a client sends a request; the server queues it for the event loop
Arrive(kind, book, chapter, text) ==
    /\ svc = "up"
    /\ nextId <= MaxRequests
    /\ Len(inbox) < MaxInbox
    /\ inbox' = Append(inbox, [id |-> nextId, kind |-> kind, book |-> book,
                               chapter |-> chapter, text |-> text])
    /\ nextId' = nextId + 1
    /\ UNCHANGED <<pathVars, dirs, files, tmp, svc, tts_engine, last, ttsDone, failedJobs, synthLog,
                   cleanups, deletedPairs, libVars>>

\* the event loop runs the handler of the oldest waiting request to its end:
\* no handler awaits anything that suspends it
Finish(req, out) ==
    /\ inbox' = Tail(inbox)
    /\ last' = [handled |-> TRUE, req |-> req, resp |-> out.resp, raised |-> out.raised,
                path |-> out.path,
                initialized |-> tts_engine.attrs.initialized]
    /\ tts_engine' = out.engine
    /\ dirs' = out.dirs
    /\ files' = out.files
    /\ tmp' = out.tmp
    /\ cleanups' = cleanups \cup out.scheduled
    /\ synthLog' = IF out.synth THEN Append(synthLog, req.id) ELSE synthLog
    /\ deletedPairs' =
          IF req.kind = "delete" /\ out.raised = ""
          THEN deletedPairs \cup {<<req.book, req.chapter>>}
          ELSE IF req.kind = "tts" /\ out.raised = ""
          THEN deletedPairs \ {<<req.book, req.chapter>>}
          ELSE deletedPairs
    /\ UNCHANGED <<pathVars, svc, nextId, libVars>>

HandleTTS ==
    /\ svc = "up" /\ inbox # <<>> /\ Head(inbox).kind = "tts"
    /\ LET req == Head(inbox)
       IN  IF ~ValidTTSRequest(req)
           THEN /\ Finish(req, Outcome(HTTPError(422, "validation error"), "ValidationError", <<>>,
                                       tts_engine, dirs, files, tmp, {}, FALSE))
                /\ UNCHANGED <<ttsDone, failedJobs>>
           ELSE /\ \E out \in GenerateTTS(req, tts_engine, dirs, files, tmp) :
                      /\ Finish(req, out)
                      /\ failedJobs' = IF out.raised = "" THEN failedJobs
                                       ELSE failedJobs \cup {req.id}
                /\ ttsDone' = IF tts_engine.attrs.initialized
                              THEN Append(ttsDone, req.id) ELSE ttsDone

HandleInfo ==
    /\ svc = "up" /\ inbox # <<>> /\ Head(inbox).kind = "info"
    /\ \E u1 \in UuidChoices(Head(inbox).book), u2 \in UuidChoices(Head(inbox).chapter),
          mkdirOk \in BOOLEAN, probeOk \in BOOLEAN :
          Finish(Head(inbox), GetAudioInfo(Head(inbox), tts_engine, dirs, files, tmp,
                                           u1, u2, mkdirOk, probeOk))
    /\ UNCHANGED <<ttsDone, failedJobs>>

HandleDelete ==
    /\ svc = "up" /\ inbox # <<>> /\ Head(inbox).kind = "delete"
    /\ \E u1 \in UuidChoices(Head(inbox).book), u2 \in UuidChoices(Head(inbox).chapter),
          mkdirOk \in BOOLEAN, unlinkOk \in BOOLEAN :
          Finish(Head(inbox), DeleteAudio(Head(inbox), tts_engine, dirs, files, tmp,
                                          u1, u2, mkdirOk, unlinkOk))
    /\ UNCHANGED <<ttsDone, failedJobs>>

HandleHealth ==
    /\ svc = "up" /\ inbox # <<>> /\ Head(inbox).kind = "health"
    /\ Finish(Head(inbox), HealthCheck(tts_engine, dirs, files, tmp))
    /\ UNCHANGED <<ttsDone, failedJobs>>

Next ==
    \/ \E mkdirOk \in BOOLEAN, espeakOk \in BOOLEAN : Startup(mkdirOk, espeakOk)
    \/ \E book \in SvcBooks \cup {<<"a", "/", "b">>}, chapter \in SvcChapters, text \in SvcTexts :
          Arrive("tts", book, chapter, text)
    \/ \E kind \in {"info", "delete"}, book \in SvcBooks, chapter \in SvcChapters :
          Arrive(kind, book, chapter, <<>>)
    \/ Arrive("health", <<>>, <<>>, <<>>)
    \/ HandleTTS
    \/ HandleInfo
    \/ HandleDelete
    \/ HandleHealth

Spec == Init /\ [][Next]_vars

(***************************************************************************)
(* Properties of the path resolver                                         *)
(***************************************************************************)
NoSeparator(seg) == \A i \in DOMAIN seg : seg[i] \notin {"/", "\\"}

SafeSegment(seg) ==
    seg # <<>> /\ NoSeparator(seg) /\ seg \notin {<<".">>, <<".", ".">>}

RootParts == Components(AudioRoot)

\* p is <audio_root>/<segment>/chapter-<segment>.mp3 with two safe segments
ChapterPathForm(p) ==
    LET parts == Components(p)
        n == Len(RootParts)
    IN  /\ Len(parts) = n + 2
        /\ SubSeq(parts, 1, n) = RootParts
        /\ LET seg == parts[n + 1]
               file == parts[n + 2]
               mid == SubSeq(file, Len(ChapterPrefix) + 1, Len(file) - Len(Mp3Suffix))
           IN  /\ SafeSegment(seg)
               /\ StartsWith(file, ChapterPrefix)
               /\ EndsWith(file, Mp3Suffix)
               /\ Len(file) > Len(ChapterPrefix) + Len(Mp3Suffix)
               /\ SafeSegment(mid)
               /\ p = AudioRoot \o <<"/">> \o seg \o <<"/">> \o file

\* the location p names lies strictly below the audio root
StrictDescendant(p) ==
    LET loc == Resolve(p)
    IN  Len(loc) > Len(RootParts) /\ SubSeq(loc, 1, Len(RootParts)) = RootParts

\* C1: for every book and chapter string, get_chapter_path returns a path of
\* the form <audio_root>/<segment>/chapter-<segment>.mp3 whose two segments
\* hold no path separator and are never '.' or '..', so the path is a strict
\* descendant of the audio root.
C1_PathConfined ==
    lastCall.called => ChapterPathForm(lastCall.path) /\ StrictDescendant(lastCall.path)

\* C1 witness: the resolver was called with the traversal input '../../etc'
\* and with a chapter holding a separator
C1_Witness ==
    /\ lastCall.called
    /\ pbook = <<".", ".", "/", ".", ".", "/", "e", "t", "c">>
    /\ pchapter = <<"x", "/", "y">>
    /\ lastCall.path = AudioRoot \o <<"/", "e", "t", "c", "/">> \o ChapterPrefix
                          \o <<"x", "_", "y">> \o Mp3Suffix

\* C2: calling get_chapter_path twice with identical inputs yields an
\* identical path and does not error on the directory the first call made.
C2_Idempotent ==
    (prevCall.called /\ lastCall.called) =>
        /\ ~lastCall.raised
        /\ lastCall.path = prevCall.path

(***************************************************************************)
(* Properties of the running service                                       *)
(***************************************************************************)
LastIs(kind) == last.handled /\ last.req.kind = kind

\* the latest request was a /tts request that passed validation
LastValidTTS == LastIs("tts") /\ ValidTTSRequest(last.req)

\* C3: two (book, chapter) pairs that differ never resolve through
\* get_chapter_path to the same artifact path: of two requests handled one
\* after the other for different pairs, the second resolves to another path.
C3_NoClash ==
    [][(/\ last.handled /\ last'.handled
        /\ last.path # <<>> /\ last'.path # <<>>
        /\ <<last.req.book, last.req.chapter>> # <<last'.req.book, last'.req.chapter>>)
       => last'.path # last.path]_vars

C6_AcknowledgedOnly ==
    (LastValidTTS /\ last.resp.status = 200) =>
        last.resp.message \notin {"TTS generation failed",
                                  "TTS generation completed successfully"}

C8_ValidRequestSucceeds ==
    (LastValidTTS /\ last.initialized /\ last.raised # "OSError") =>
        last.resp.status = 200 /\ last.resp.success

\* C9: with the engine not initialized, a /tts request is rejected with
\* HTTP 503 'TTS engine not ready'.
C9_NotReadyRejected ==
    (LastValidTTS /\ ~last.initialized) =>
        last.resp = HTTPError(503, "TTS engine not ready")
(***************************************************************************)
(* Properties of _clean_text and _split_text                               *)
(***************************************************************************)
\* C14: every chunk EmotiVoiceEngine._split_text returns has at most
\* max_text_length characters, unless the chunk is one single sentence that
\* is itself longer than max_text_length.
C14_ChunkWithinLimit ==
    emotiSplit.done =>
        \A k \in DOMAIN emotiSplit.chunks :
            LET chunk == emotiSplit.chunks[k]
                sentences == Sentences(emotiSplit.cleaned)
            IN  \/ Len(chunk) <= max_text_length
                \/ \E j \in DOMAIN sentences : chunk = Strip(sentences[j], Whitespace)

\* the words of the chunks, taken in order and rejoined with single spaces
RejoinedWords(chunks) == Words(JoinSpace(chunks))

\* C15: for every cleaned text, the chunks of _split_text (both engines),
\* rejoined in order with single spaces, hold exactly the words of the text
\* in the original order.
C15_WordsPreserved ==
    /\ emotiSplit.done => RejoinedWords(emotiSplit.chunks) = Words(emotiSplit.cleaned)
    /\ barkSplit.done => RejoinedWords(barkSplit.chunks) = Words(barkSplit.cleaned)

\* C15 witness: a text of more than max_chunk_length words was split by both
\* engines into several chunks
C15_Witness ==
    /\ emotiSplit.done /\ barkSplit.done
    /\ Len(emotiSplit.chunks) >= 2 /\ Len(barkSplit.chunks) >= 2
    /\ Len(Words(emotiSplit.cleaned)) > max_chunk_length

\* C16: for every text of at least one character, cleaning followed by
\* _split_text yields at least one chunk (both engines).
C16_AtLeastOneChunk ==
    /\ (emotiSplit.done /\ Len(ttext) >= 1) => emotiSplit.chunks # <<>>
    /\ (barkSplit.done /\ Len(ttext) >= 1) => barkSplit.chunks # <<>>
(***************************************************************************)
(* Properties of _normalize_audio                                          *)
(***************************************************************************)
\* C13: for a waveform with at least one non-zero sample the largest absolute
\* sample of the output is the 0.9 ceiling; an all-zero waveform stays
\* all-zero.
C13_NormalizedToCeiling ==
    (normalized.done /\ audio # <<>>) =>
        LET out == normalized.out.samples
        IN  /\ ~normalized.out.raised
            /\ (\E i \in DOMAIN audio : audio[i] # 0) =>
                  /\ \E i \in DOMAIN out : 10 * Abs(out[i].num) = 9 * out[i].den
                  /\ \A i \in DOMAIN out : 10 * Abs(out[i].num) <= 9 * out[i].den
            /\ (\A i \in DOMAIN audio : audio[i] = 0) =>
                  \A i \in DOMAIN out : out[i].num = 0
(***************************************************************************)
(* Properties of process_audio                                             *)
(***************************************************************************)
\* the copy of the raw file could not be made
CopyFailed == ~paCall.copyOk \/ ~paCall.outDirOk \/ srcFile = "absent"

\* C17: whenever the ffmpeg invocation exits non-zero, raises (tool missing)
\* or exceeds its 60-second wait, the raw input file is copied as it is to the
\* destination and the destination path is returned; process_audio raises
\* only when that copy fails too.
C17_FallbackCopy ==
    paCall.called =>
        /\ (paCall.ffmpeg \in {"fail", "timeout", "missing"} /\ ~CopyFailed) =>
              /\ ~paCall.raised
              /\ paCall.path = paCall.out
              /\ paCall.out \in DOMAIN outFiles
              /\ outFiles[paCall.out] = srcFile
        /\ paCall.raised => (paCall.ffmpeg # "ok" /\ CopyFailed)

\* C17 witness: ffmpeg ran into its timeout and left a partial output behind;
\* the destination then holds the copy of the raw wav
C17_Witness ==
    /\ paCall.called /\ paCall.ffmpeg = "timeout" /\ ~paCall.raised
    /\ srcFile = "wav"
    /\ paCall.path = OtherArtifact
    /\ outFiles[OtherArtifact] = "wav"
(***************************************************************************)
(* Properties of delete_audio, get_audio_info and health_check             *)
(***************************************************************************)
\* this step handled an info or delete request (one that did not end with an
\* operating-system error)
QueryHandled ==
    /\ last' # last
    /\ last'.handled
    /\ last'.req.kind \in {"info", "delete"}
    /\ last'.raised # "OSError"

\* C18: after delete_audio succeeded for a (book, chapter), the artifact no
\* longer exists and every later info or delete request for the pair answers
\* 404 until a /tts job for the pair completes; delete_audio for a pair with
\* no artifact answers 404 and removes no file.
C18_DeleteThenNotFound ==
    [][QueryHandled =>
        /\ (last'.req.kind = "delete" /\ last'.resp.status = 200) =>
              last'.path \notin DOMAIN files'
        /\ <<last'.req.book, last'.req.chapter>> \in deletedPairs =>
              last'.resp = HTTPError(404, "Audio file not found")
        /\ (last'.req.kind = "delete" /\ last'.path \notin DOMAIN files) =>
              /\ last'.resp = HTTPError(404, "Audio file not found")
              /\ files' = files]_vars

\* C18 witness: the artifact of ('b1', '1') was deleted, and the info request
\* for the pair that followed was answered 404
C18_Witness ==
    /\ <<(<<"b", "1">>), (<<"1">>)>> \in deletedPairs
    /\ OldArtifact \notin DOMAIN files
    /\ LastIs("info")
    /\ last.req.book = <<"b", "1">>
    /\ last.resp = HTTPError(404, "Audio file not found")

\* C19: the health endpoint answers with success in every engine state, and
\* its model_loaded flag tells whether the engine's initialization succeeded.
C19_HealthReportsReadiness ==
    LastIs("health") =>
        /\ last.resp.status = 200
        /\ last.resp.model_loaded = last.initialized
(***************************************************************************)
(* Properties of generate_speech (EmotiVoiceEngine and TTSEngine)          *)
(***************************************************************************)
\* the chunks of call k whose array the coroutine has taken from the executor
Taken(k) == IF k.pc = "returned" THEN 1..(k.i - 1) ELSE 1..Len(k.outcomes)

\* the chunks that the segments of a waveform were made for, in order
ChunkOrder(wave) ==
    LET made == SelectSeq(wave, LAMBDA seg : seg.of # 0)
    IN  [j \in DOMAIN made |-> made[j].of]

\* C11: when the synthesis of a chunk raises, the chunk is replaced by 2
\* seconds of silence (2 x sample_rate zero samples), the chunks after it are
\* still synthesized in order, and the call writes the output file instead of
\* raising.
C11_SilenceOnChunkFailure ==
    \A c \in DOMAIN calls :
        LET k == calls[c]
            failed == {j \in DOMAIN k.outcomes : k.outcomes[j] = "raise"}
        IN  /\ \A j \in failed \cap Taken(k) :
                  \E a \in DOMAIN k.audio_arrays :
                      k.audio_arrays[a] = <<Segment("zeros", 2 * SampleRate(engine.kind), j)>>
            /\ (k.pc = "done" /\ failed # {}) =>
                  /\ Len(k.outcomes) = k.n
                  /\ k.result = "written"
                  /\ k.file = Concatenate(k.audio_arrays)
                  /\ \A x, y \in DOMAIN ChunkOrder(k.file) :
                        x < y => ChunkOrder(k.file)[x] < ChunkOrder(k.file)[y]
                  /\ \A j \in failed : \E x \in DOMAIN k.file :
                        k.file[x] = Segment("zeros", 2 * SampleRate(engine.kind), j)

\* C11 witness: the first of two chunks failed, the second was synthesized,
\* and the file holds the silence, the pause and the speech of the second
C11_Witness ==
    \E c \in DOMAIN calls :
        /\ calls[c].pc = "done"
        /\ calls[c].outcomes = <<"raise", "speech">>
        /\ calls[c].result = "written"
        /\ calls[c].file = FailureSilence(engine.kind, 1) \o Pause(engine.kind)
                              \o <<Segment("speech", SampleRate(engine.kind), 2)>>

\* the waveforms of chunks i..n in chunk order with one pause between each
\* two consecutive chunks
RECURSIVE Interleaved(_, _, _)
Interleaved(kind, outcomes, i) ==
    IF i > Len(outcomes) THEN <<>>
    ELSE GenerateChunk(kind, i, outcomes[i])
           \o (IF i < Len(outcomes) THEN Pause(kind) ELSE <<>>)
           \o Interleaved(kind, outcomes, i + 1)

\* C12: EmotiVoiceEngine.generate_speech assembles the waveforms of the n
\* chunks in chunk order with exactly one 0.3-second silence between each two
\* consecutive chunks and none after the last, whatever waveforms the backend
\* returns (empty ones included).
C12_PausesBetweenChunks ==
    \A c \in DOMAIN calls :
        (engine.kind = "emoti" /\ calls[c].pc = "done" /\ calls[c].result = "written") =>
            calls[c].file = Interleaved(engine.kind, calls[c].outcomes, 1)

\* C20: the synthesis backend is never invoked concurrently: no two
\* _generate_chunk executions overlap.
C20_NoConcurrentSynthesis ==
    Cardinality({c \in DOMAIN calls : calls[c].pc = "running"}) <= 1

(***************************************************************************)
(* Properties of _generate_with_espeak                                     *)
(***************************************************************************)
\* C21: _generate_with_espeak deletes the temporary wav file it created on
\* every exit path (success, non-zero exit of espeak, an exception raised
\* after the file was created): after a call in which no os.unlink failed,
\* the file of that call does not exist.
C21_TempFileDeleted ==
    \A t \in DOMAIN espeakCalls :
        (espeakCalls[t].created /\ ~(espeakCalls[t].unlinkReached /\ espeakCalls[t].left))
            => t \notin espeakTmp

(***************************************************************************)
(* Properties of the paths the service reports                             *)
(***************************************************************************)
\* the relative path a response carries, joined to the audio root
ReportedFile(rel) == AudioRoot \o <<"/">> \o rel

\* C24: the audio_path of a successful /tts response and the path field of an
\* info response, taken relative to the audio root, name exactly the file that
\* get_chapter_path resolved for the request.
C24_ReportedPathIsArtifact ==
    /\ (LastIs("tts") /\ last.resp.status = 200 /\ last.resp.success) =>
          ReportedFile(last.resp.audio_path) = last.path
    /\ (LastIs("info") /\ last.resp.status = 200) =>
          ReportedFile(last.resp.path) = last.path

\* C25: an info or delete request for a (book, chapter) that has no artifact
\* answers 'not found' and leaves the filesystem under the audio root as it
\* was: no file and no directory is created or removed.
C25_NotFoundLeavesNoTrace ==
    [][(QueryHandled /\ last'.path # <<>> /\ last'.path \notin DOMAIN files) =>
        /\ last'.resp = HTTPError(404, "Audio file not found")
        /\ files' = files
        /\ dirs' = dirs]_vars

(***************************************************************************)
(* Properties of cleanup_orphaned_files                                    *)
(***************************************************************************)
\* the directory get_chapter_path gives the book
DirOf(book) == PathJoin(AudioRoot, Sanitize(book, <<>>))

\* C26: cleanup_orphaned_files(valid_books) never deletes the directory or
\* the artifacts of a book listed in valid_books, whatever characters its name
\* contains; the directories it removes belong to books absent from
\* valid_books only.
C26_ValidBooksKept ==
    [][(cleanup'.n # cleanup.n /\ cleanup'.given) =>
        /\ \A book \in owners \cap cleanup'.valid_books :
              /\ DirOf(book) \in dirs => DirOf(book) \in dirs'
              /\ FilesIn(shelf, DirOf(book)) \subseteq shelf'
        /\ \A d \in dirs \ dirs' :
              \A book \in owners : DirOf(book) = d => book \notin cleanup'.valid_books]_vars

(***************************************************************************)
(* Properties of _sanitize_filename                                        *)
(***************************************************************************)
\* the two sanitized names in a path get_chapter_path returned
SanitizedNames(p) ==
    LET parts == Components(p)
        n == Len(RootParts)
        file == parts[n + 2]
    IN  {parts[n + 1], SubSeq(file, Len(ChapterPrefix) + 1, Len(file) - Len(Mp3Suffix))}

\* C27: for every input string, _sanitize_filename returns a non-empty string
\* of at most 100 characters made of word characters, '-', '_' and '.' only,
\* with no two consecutive '_' and with neither '_' nor '.' at its start or
\* its end.
C27_SanitizedShape ==
    lastCall.called =>
        \A name \in SanitizedNames(lastCall.path) :
            /\ name # <<>>
            /\ Len(name) <= MaxFilenameLen
            /\ \A i \in DOMAIN name : name[i] \in KeptChars
            /\ \A i \in 1..(Len(name) - 1) : ~(name[i] = "_" /\ name[i + 1] = "_")
            /\ name[1] \notin {"_", "."}
            /\ name[Len(name)] \notin {"_", "."}

(***************************************************************************)
(* Properties of _clean_text                                               *)
(***************************************************************************)
\* no two whitespace characters in a row and none at either end
WhitespaceNormalized(t) ==
    /\ \A i \in 1..(Len(t) - 1) : ~(t[i] \in Whitespace /\ t[i + 1] \in Whitespace)
    /\ t # <<>> => (t[1] \notin Whitespace /\ t[Len(t)] \notin Whitespace)

\* C28: for every input text, the output of _clean_text (EmotiVoiceEngine and
\* TTSEngine) is whitespace-normalized: it holds no run of two or more
\* whitespace characters and no leading or trailing whitespace.
C28_CleanTextNormalized ==
    /\ emotiSplit.done => WhitespaceNormalized(emotiSplit.cleaned)
    /\ barkSplit.done => WhitespaceNormalized(barkSplit.cleaned)

\* C30: for every accepted request text (1 to 50,000 characters), the whole
\* whitespace-normalized text is what SimpleTTSEngine hands to its synthesis
\* backend: no part of it is dropped or truncated.
C30_WholeTextSynthesized ==
    (simpleClean.done /\ Len(ttext) >= 1 /\ Len(ttext) <= MaxTextLen) =>
        simpleClean.sent = SubWhitespace(ttext)

(***************************************************************************)
(* Properties of _apply_processing                                         *)
(***************************************************************************)
\* C29: _apply_processing is best-effort: it never raises, and if any
\* processing step (resample, trim, normalize, compression, noise reduction,
\* clip) raises, it returns the input waveform exactly as it was passed in,
\* not partially processed data.
C29_BestEffortReturnsInput ==
    procOut.done =>
        /\ ~procOut.raised
        /\ procOut.raisedIn # {} => procOut.returned = Waveform(procIn.sample_rate)
====
